---- MODULE Spec2Model ----
(***************************************************************************)
(* Model of the bookstore backend's account service (be/model/user.py) and *)
(* seller service (be/model/seller.py).                                    *)
(*                                                                         *)
(* Every collection of the document store is a sequence of documents in    *)
(* insertion order: find_one / update_one / delete_one act on the first    *)
(* document that matches the filter, insert_one appends.  The source       *)
(* declares no unique index, so a collection may hold two documents with   *)
(* the same key.                                                           *)
(*                                                                         *)
(* Every handler is a chain of steps, one per database operation, run by a *)
(* caller p; what the handler computes before a database operation (a      *)
(* clock read, a token) belongs to the step of that operation; where a     *)
(* handler reads the clock twice before one operation, the second reading  *)
(* may be later than the first.  A specification with one caller is the    *)
(* sequential program; one with two callers gives every interleaving of    *)
(* the database operations.                                                *)
(*                                                                         *)
(* Specifications: Spec (account service, one caller, the clock moves),    *)
(* AccountRaceSpec (account service, a caller raced by one call of a       *)
(* second, every clock reading the same), SellerSeqSpec and SellerSpec     *)
(* (seller service, one and two callers), TwoCallsSpec (both services,    *)
(* two concurrent calls from any state of the collections).                *)
(*                                                                         *)
(* Strings: a terminal label is [prefix, suffix], the text prefix followed *)
(* by the decimal form of a clock reading (suffix -1: no such suffix).  A  *)
(* token string is [jwt, user_id, terminal, timestamp, key]: jwt says      *)
(* whether the string is a well-formed JWT, key is the HS256 key it was    *)
(* signed with, the rest is its payload.                                   *)
(***************************************************************************)
EXTENDS Integers, Sequences, FiniteSets, TLC

VARIABLES
    user,           \* collection 'user'
    user_store,     \* collection 'user_store'
    store,          \* collection 'store' (the book listings)
    order_history,  \* collection 'order_history'
    now,            \* what time.time() returns
    pc,             \* pc[p]: where caller p is in its handler
    loc,            \* loc[p]: the arguments and local variables of p's call
    ret,            \* ret[p]: the result of p's last completed call
    returned,       \* history: the tokens login has returned to a caller
    superseded,     \* history: returned tokens followed by a later rotation
    logged_out,     \* history: users whose last session change was a logout
    calls,          \* history: how many seller calls were started
    ship_ok,        \* history: ship_ok[o], how many ship_order calls returned 200
    init_stock,     \* history: the stock_level the first add_book of a pair gave
    restocked       \* history: the sum of the deltas add_stock_level returned 200 for

db_vars    == <<user, user_store, store, order_history>>
hist_acct  == <<returned, superseded, logged_out>>
hist_sell  == <<calls, ship_ok, init_stock, restocked>>
vars == <<user, user_store, store, order_history, now, pc, loc, ret,
          returned, superseded, logged_out, calls, ship_ok, init_stock, restocked>>

----------------------------------------------------------------------------
(* Bounds and input sets *)

MaxTicks == 1
MaxCalls == 3

Procs     == {1, 2}
SeqProcs  == {1}
UserIds   == {"u1"}
Passwords == {"p1", "p2"}
StoreIds  == {"s1", "s2"}
BookIds   == {"b1"}
BookInfos == {"{}"}
OrderIds  == {"o1", "o2"}
Statuses  == {"unpaid", "paid", "shipped"}
StockLevels == {10}
Deltas    == {-11, 5}

token_lifetime == 3600

\* The clock moves by a whole token lifetime or by one second more.
TickSteps == {token_lifetime, token_lifetime + 1}
TicksOf(t) == t \div token_lifetime

\* What a second call of time.time() may return when the first returned t:
\* the same reading, or a later one.
later_readings(t) == {t} \cup {t + d : d \in {e \in TickSteps : TicksOf(t + e) <= MaxTicks}}

----------------------------------------------------------------------------
(* Strings *)

plain(s)     == [prefix |-> s, suffix |-> -1]
\* "terminal_{}".format(str(time.time()))
terminal_(t) == [prefix |-> "terminal_", suffix |-> t]

\* The terminal labels a caller of login supplies.
Terminals == {plain("t1"), terminal_(0)}

\* The empty string, which login returns with an error.
EmptyString == [jwt |-> FALSE, user_id |-> "", terminal |-> plain(""),
                timestamp |-> 0, key |-> ""]
\* What stands for the token of a returned (code, message) pair, which has
\* no third element.
NoToken == [jwt |-> FALSE, user_id |-> "", terminal |-> plain(""),
            timestamp |-> 0, key |-> "no third element"]
\* A string that is no JWT.
Garbage == [jwt |-> FALSE, user_id |-> "", terminal |-> plain("x"),
            timestamp |-> 0, key |-> ""]

\* jwt.encode({"user_id", "terminal", "timestamp": time.time()}, key=user_id):
\* t is the clock reading taken inside the call.
jwt_encode(user_id, terminal, t) ==
    [jwt |-> TRUE, user_id |-> user_id, terminal |-> terminal,
     timestamp |-> t, key |-> user_id]

\* jwt.decode(token, key=user_id, algorithms="HS256"): the payload, or the
\* exception raised.
jwt_decode(encoded_token, user_id) ==
    IF ~encoded_token.jwt THEN [raised |-> "DecodeError"]
    ELSE IF encoded_token.key # user_id THEN [raised |-> "InvalidSignatureError"]
    ELSE [raised |-> "", user_id |-> encoded_token.user_id,
          terminal |-> encoded_token.terminal,
          timestamp |-> encoded_token.timestamp]

----------------------------------------------------------------------------
(* The document store *)

\* The first of the indices S (the document find_one, update_one and
\* delete_one pick among those that match), 0 when there is none.
first(S) == IF S = {} THEN 0 ELSE CHOOSE i \in S : \A j \in S : i <= j

\* The collection without its i-th document.
delete_at(coll, i) == [j \in 1..(Len(coll) - 1) |-> IF j < i THEN coll[j] ELSE coll[j + 1]]

find_user(user_id) == first({i \in DOMAIN user : user[i].user_id = user_id})
find_order(order_id) ==
    first({i \in DOMAIN order_history : order_history[i].order_id = order_id})
find_store(store_id) ==
    first({i \in DOMAIN user_store : user_store[i].store_id = store_id})
find_book(store_id, book_id) ==
    first({i \in DOMAIN store :
              store[i].store_id = store_id /\ store[i].book_id = book_id})

\* db_conn.DBConn's existence checks.
user_id_exist(user_id)  == find_user(user_id) # 0
store_id_exist(store_id) == find_store(store_id) # 0
book_id_exist(store_id, book_id) == find_book(store_id, book_id) # 0

----------------------------------------------------------------------------
(* Results *)

OK == "200 ok"
error_authorization_fail == "error_authorization_fail"
error_exist_user_id      == "error_exist_user_id"
error_non_exist_user_id  == "error_non_exist_user_id"
error_non_exist_store_id == "error_non_exist_store_id"
error_exist_store_id     == "error_exist_store_id"
error_non_exist_book_id  == "error_non_exist_book_id"
error_exist_book_id      == "error_exist_book_id"
InvalidOrder == "400 Invalid order ID"
NotPaid      == "400 Order is not paid"
Raised       == "raise DecodeError"
\* What the "except Exception" clause of a handler returns.
error_530    == "530 DecodeError"

NoCall == [op |-> "", code |-> "", at |-> "", user_id |-> "",
           password |-> "", new_password |-> "", token |-> NoToken,
           presented |-> EmptyString, store_id |-> "", book_id |-> "", order_id |-> "", delta |-> 0]

Blank == [op |-> "", user_id |-> "", password |-> "", new_password |-> "",
          terminal |-> plain(""), token |-> EmptyString,
          store_id |-> "", book_id |-> "", book_info |-> "", stock_level |-> 0,
          order_id |-> ""]

\* The call with arguments and locals a, made by p, ends with code and, when
\* it returns a triple, token (NoToken when it returns a pair); at is the
\* step of the handler that returns.
Return(p, a, code, token) ==
    /\ ret' = [ret EXCEPT ![p] =
                 [op |-> a.op, code |-> code, at |-> pc[p], user_id |-> a.user_id,
                  password |-> a.password, new_password |-> a.new_password,
                  token |-> token,
                  presented |-> IF a.op \in {"check_token", "logout"}
                                THEN a.token ELSE EmptyString,
                  store_id |-> a.store_id,
                  book_id |-> a.book_id, order_id |-> a.order_id,
                  delta |-> a.stock_level]]
    /\ pc' = [pc EXCEPT ![p] = "idle"]
    /\ loc' = [loc EXCEPT ![p] = Blank]

\* The call of p goes on at label with arguments and locals a.
Goto(p, a, label) ==
    /\ pc' = [pc EXCEPT ![p] = label]
    /\ loc' = [loc EXCEPT ![p] = a]
    /\ ret' = ret

----------------------------------------------------------------------------
(* be/model/user.py *)

\* __check_token with the lifetime test written "<": a token is refused at
\* exactly token_lifetime.
User__check_token_strict(user_id, db_token, token, t) ==
    IF db_token # token THEN "False"
    ELSE LET jwt_text == jwt_decode(token, user_id) IN
         IF jwt_text.raised = "InvalidSignatureError" THEN "False"
         ELSE IF jwt_text.raised # "" THEN "raise"
         ELSE IF t - jwt_text.timestamp < token_lifetime THEN "True"
         ELSE "False"

\* __check_token without the comparison with the stored token.
User__check_token_no_compare(user_id, db_token, token, t) ==
    LET jwt_text == jwt_decode(token, user_id) IN
    IF jwt_text.raised = "InvalidSignatureError" THEN "False"
    ELSE IF jwt_text.raised # "" THEN "raise"
    ELSE IF t - jwt_text.timestamp <= token_lifetime THEN "True"
    ELSE "False"

\* User.__check_token, with t the reading of time.time(): "True", "False", or
\* "raise" for an exception the except clause does not catch.  (A payload
\* without a timestamp is never stored: every stored token is made by
\* jwt_encode.)
User__check_token(user_id, db_token, token, t) ==
    IF db_token # token THEN "False"
    ELSE LET jwt_text == jwt_decode(token, user_id) IN
         IF jwt_text.raised = "InvalidSignatureError" THEN "False"
         ELSE IF jwt_text.raised # "" THEN "raise"
         ELSE IF t - jwt_text.timestamp <= token_lifetime THEN "True"
         ELSE "False"

\* What check_token returns (lines 103-112): the user is looked up, and the
\* presented token is checked against the stored one at clock reading t.
token_verdict(user_id, token, t) ==
    LET i == find_user(user_id) IN
    IF i = 0 THEN error_authorization_fail
    ELSE LET valid == User__check_token(user_id, user[i].token, token, t) IN
         IF valid = "raise" THEN Raised
         ELSE IF valid = "False" THEN error_authorization_fail
         ELSE OK

\* What check_password returns (lines 119-129).
password_verdict(user_id, password) ==
    LET i == find_user(user_id) IN
    IF i = 0 THEN error_authorization_fail
    ELSE IF user[i].password # password THEN error_authorization_fail
    ELSE OK

\* The tokens of user_id that login has returned so far.
returned_to(user_id) == {T \in returned : T.user_id = user_id}

Tick ==
    /\ \E d \in TickSteps :
          /\ TicksOf(now + d) <= MaxTicks
          /\ now' = now + d
    /\ UNCHANGED <<db_vars, pc, loc, ret, hist_acct, hist_sell>>

\* register without the look-up of an existing user.
register_no_check(p, user_id, password) ==
    /\ pc[p] = "idle"
    /\ Goto(p, [Blank EXCEPT !.op = "register", !.user_id = user_id,
                             !.password = password], "register_insert")
    /\ UNCHANGED <<db_vars, now, hist_acct, hist_sell>>

\* register: find_one (lines 80-82).
register(p, user_id, password) ==
    /\ pc[p] = "idle"
    /\ LET a == [Blank EXCEPT !.op = "register", !.user_id = user_id,
                              !.password = password] IN
       IF find_user(user_id) # 0
       THEN Return(p, a, error_exist_user_id, NoToken)
       ELSE Goto(p, a, "register_insert")
    /\ UNCHANGED <<db_vars, now, hist_acct, hist_sell>>

\* register that stores the empty string as the token of the new user.
register_insert_empty_token(p) ==
    /\ pc[p] = "register_insert"
    /\ user' = Append(user, [user_id |-> loc[p].user_id,
                             password |-> loc[p].password,
                             balance |-> 0, token |-> EmptyString,
                             terminal |-> terminal_(now)])
    /\ Return(p, loc[p], OK, NoToken)
    /\ UNCHANGED <<user_store, store, order_history, now, hist_acct, hist_sell>>

\* register: the terminal, made from one clock reading, the token, stamped
\* with the next reading t, insert_one and the return (lines 84-94).
register_insert(p) ==
    /\ pc[p] = "register_insert"
    /\ \E t \in later_readings(now) :
          /\ LET terminal == terminal_(now)
                 token == jwt_encode(loc[p].user_id, terminal, t) IN
             user' = Append(user, [user_id |-> loc[p].user_id,
                                   password |-> loc[p].password,
                                   balance |-> 0, token |-> token,
                                   terminal |-> terminal])
          /\ now' = t
    /\ Return(p, loc[p], OK, NoToken)
    /\ UNCHANGED <<user_store, store, order_history, hist_acct, hist_sell>>

\* check_token (lines 98-112).
check_token(p, user_id, token) ==
    /\ pc[p] = "idle"
    /\ Return(p, [Blank EXCEPT !.op = "check_token", !.user_id = user_id,
                               !.token = token],
              token_verdict(user_id, token, now), NoToken)
    /\ UNCHANGED <<db_vars, now, hist_acct, hist_sell>>

\* check_password (lines 114-129).
check_password(p, user_id, password) ==
    /\ pc[p] = "idle"
    /\ Return(p, [Blank EXCEPT !.op = "check_password", !.user_id = user_id,
                               !.password = password],
              password_verdict(user_id, password), NoToken)
    /\ UNCHANGED <<db_vars, now, hist_acct, hist_sell>>

\* login: check_password (lines 137-139).
login(p, user_id, password, terminal) ==
    /\ pc[p] = "idle"
    /\ LET a == [Blank EXCEPT !.op = "login", !.user_id = user_id,
                              !.password = password, !.terminal = terminal] IN
       IF password_verdict(user_id, password) # OK
       THEN Return(p, a, password_verdict(user_id, password), EmptyString)
       ELSE Goto(p, a, "login_update")
    /\ UNCHANGED <<db_vars, now, hist_acct, hist_sell>>

\* login whose update sets the terminal and leaves the stored token.
login_update_terminal_only(p) ==
    /\ pc[p] = "login_update"
    /\ LET i == find_user(loc[p].user_id)
           token == jwt_encode(loc[p].user_id, loc[p].terminal, now) IN
       IF i = 0
       THEN /\ Return(p, loc[p], error_authorization_fail, NoToken)
            /\ UNCHANGED <<user, hist_acct>>
       ELSE /\ user' = [user EXCEPT ![i].terminal = loc[p].terminal]
            /\ Return(p, loc[p], OK, token)
            /\ superseded' = superseded \cup returned_to(loc[p].user_id)
            /\ returned' = returned \cup {token}
            /\ logged_out' = logged_out \ {loc[p].user_id}
    /\ UNCHANGED <<user_store, store, order_history, now, hist_sell>>

\* login that does not look at the matched_count of its update.
login_update_no_matched_count(p) ==
    /\ pc[p] = "login_update"
    /\ LET i == find_user(loc[p].user_id)
           token == jwt_encode(loc[p].user_id, loc[p].terminal, now) IN
       /\ user' = IF i = 0 THEN user
                  ELSE [user EXCEPT ![i].token = token,
                                    ![i].terminal = loc[p].terminal]
       /\ Return(p, loc[p], OK, token)
       /\ superseded' = superseded \cup returned_to(loc[p].user_id)
       /\ returned' = returned \cup {token}
       /\ logged_out' = logged_out \ {loc[p].user_id}
    /\ UNCHANGED <<user_store, store, order_history, now, hist_sell>>

\* login: the token, update_one and the return (lines 142-153).
login_update(p) ==
    /\ pc[p] = "login_update"
    /\ LET i == find_user(loc[p].user_id)
           token == jwt_encode(loc[p].user_id, loc[p].terminal, now) IN
       IF i = 0
       THEN /\ Return(p, loc[p], error_authorization_fail, NoToken)
            /\ UNCHANGED <<user, hist_acct>>
       ELSE /\ user' = [user EXCEPT ![i].token = token,
                                    ![i].terminal = loc[p].terminal]
            /\ Return(p, loc[p], OK, token)
            /\ superseded' = superseded \cup returned_to(loc[p].user_id)
            /\ returned' = returned \cup {token}
            /\ logged_out' = logged_out \ {loc[p].user_id}
    /\ UNCHANGED <<user_store, store, order_history, now, hist_sell>>

\* logout: check_token, an exception of which is caught (lines 161-164,
\* 178-179).
logout(p, user_id, token) ==
    /\ pc[p] = "idle"
    /\ LET a == [Blank EXCEPT !.op = "logout", !.user_id = user_id,
                              !.token = token] IN
       IF token_verdict(user_id, token, now) = Raised
       THEN Return(p, a, error_530, NoToken)
       ELSE IF token_verdict(user_id, token, now) # OK
       THEN Return(p, a, token_verdict(user_id, token, now), NoToken)
       ELSE Goto(p, a, "logout_update")
    /\ UNCHANGED <<db_vars, now, hist_acct, hist_sell>>

\* logout whose update sets the token and leaves the stored terminal.
logout_update_token_only(p) ==
    /\ pc[p] = "logout_update"
    /\ \E t \in later_readings(now) :
          /\ LET i == find_user(loc[p].user_id)
                 terminal == terminal_(now)
                 dummy_token == jwt_encode(loc[p].user_id, terminal, t) IN
             IF i = 0
             THEN /\ Return(p, loc[p], error_authorization_fail, NoToken)
                  /\ UNCHANGED <<user, hist_acct>>
             ELSE /\ user' = [user EXCEPT ![i].token = dummy_token]
                  /\ Return(p, loc[p], OK, NoToken)
                  /\ superseded' = superseded \cup returned_to(loc[p].user_id)
                  /\ logged_out' = logged_out \cup {loc[p].user_id}
                  /\ returned' = returned
          /\ now' = t
    /\ UNCHANGED <<user_store, store, order_history, hist_sell>>

\* logout: the terminal, made from one clock reading, the dummy token,
\* stamped with the next reading t, update_one and the return (lines 167-180).
logout_update(p) ==
    /\ pc[p] = "logout_update"
    /\ \E t \in later_readings(now) :
          /\ LET i == find_user(loc[p].user_id)
                 terminal == terminal_(now)
                 dummy_token == jwt_encode(loc[p].user_id, terminal, t) IN
             IF i = 0
             THEN /\ Return(p, loc[p], error_authorization_fail, NoToken)
                  /\ UNCHANGED <<user, hist_acct>>
             ELSE /\ user' = [user EXCEPT ![i].token = dummy_token,
                                          ![i].terminal = terminal]
                  /\ Return(p, loc[p], OK, NoToken)
                  /\ superseded' = superseded \cup returned_to(loc[p].user_id)
                  /\ logged_out' = logged_out \cup {loc[p].user_id}
                  /\ returned' = returned
          /\ now' = t
    /\ UNCHANGED <<user_store, store, order_history, hist_sell>>

\* unregister: check_password (lines 189-191).
unregister(p, user_id, password) ==
    /\ pc[p] = "idle"
    /\ LET a == [Blank EXCEPT !.op = "unregister", !.user_id = user_id,
                              !.password = password] IN
       IF password_verdict(user_id, password) # OK
       THEN Return(p, a, password_verdict(user_id, password), NoToken)
       ELSE Goto(p, a, "unregister_delete")
    /\ UNCHANGED <<db_vars, now, hist_acct, hist_sell>>

\* unregister: delete_one and the return (lines 193-201).
unregister_delete(p) ==
    /\ pc[p] = "unregister_delete"
    /\ LET i == find_user(loc[p].user_id) IN
       IF i = 0
       THEN /\ Return(p, loc[p], error_authorization_fail, NoToken)
            /\ user' = user
       ELSE /\ user' = delete_at(user, i)
            /\ Return(p, loc[p], OK, NoToken)
    /\ UNCHANGED <<user_store, store, order_history, now, hist_acct, hist_sell>>

\* change_password: check_password (lines 210-212).
change_password(p, user_id, old_password, new_password) ==
    /\ pc[p] = "idle"
    /\ LET a == [Blank EXCEPT !.op = "change_password", !.user_id = user_id,
                              !.password = old_password,
                              !.new_password = new_password] IN
       IF password_verdict(user_id, old_password) # OK
       THEN Return(p, a, password_verdict(user_id, old_password), NoToken)
       ELSE Goto(p, a, "change_password_update")
    /\ UNCHANGED <<db_vars, now, hist_acct, hist_sell>>

\* change_password: the terminal, made from one clock reading, the token,
\* stamped with the next reading t, update_one, whose matched_count is not
\* looked at, and the return (lines 214-228).
change_password_update(p) ==
    /\ pc[p] = "change_password_update"
    /\ \E t \in later_readings(now) :
          /\ LET i == find_user(loc[p].user_id)
                 terminal == terminal_(now)
                 token == jwt_encode(loc[p].user_id, terminal, t) IN
             user' = IF i = 0 THEN user
                     ELSE [user EXCEPT ![i].password = loc[p].new_password,
                                       ![i].token = token,
                                       ![i].terminal = terminal]
          /\ now' = t
    /\ Return(p, loc[p], OK, NoToken)
    /\ superseded' = superseded \cup returned_to(loc[p].user_id)
    /\ UNCHANGED <<returned, logged_out>>
    /\ UNCHANGED <<user_store, store, order_history, hist_sell>>

----------------------------------------------------------------------------
(* be/model/seller.py *)

\* add_book: user_id_exist (lines 31-32).
add_book(p, user_id, store_id, book_id, book_json_str, stock_level) ==
    /\ pc[p] = "idle"
    /\ calls < MaxCalls
    /\ calls' = calls + 1
    /\ LET a == [Blank EXCEPT !.op = "add_book", !.user_id = user_id,
                              !.store_id = store_id, !.book_id = book_id,
                              !.book_info = book_json_str,
                              !.stock_level = stock_level] IN
       IF ~user_id_exist(user_id)
       THEN Return(p, a, error_non_exist_user_id, NoToken)
       ELSE Goto(p, a, "add_book_store")
    /\ UNCHANGED <<db_vars, now, hist_acct, ship_ok, init_stock, restocked>>

\* add_book without the check of the store.
add_book_store_skip(p) ==
    /\ pc[p] = "add_book_store"
    /\ Goto(p, loc[p], "add_book_book")
    /\ UNCHANGED <<db_vars, now, hist_acct, hist_sell>>

\* add_book: store_id_exist (lines 33-34).
add_book_store(p) ==
    /\ pc[p] = "add_book_store"
    /\ IF ~store_id_exist(loc[p].store_id)
       THEN Return(p, loc[p], error_non_exist_store_id, NoToken)
       ELSE Goto(p, loc[p], "add_book_book")
    /\ UNCHANGED <<db_vars, now, hist_acct, hist_sell>>

\* add_book: book_id_exist (lines 35-36).
add_book_book(p) ==
    /\ pc[p] = "add_book_book"
    /\ IF book_id_exist(loc[p].store_id, loc[p].book_id)
       THEN Return(p, loc[p], error_exist_book_id, NoToken)
       ELSE Goto(p, loc[p], "add_book_insert")
    /\ UNCHANGED <<db_vars, now, hist_acct, hist_sell>>

\* add_book: insert_one and the return (lines 39-50).
add_book_insert(p) ==
    /\ pc[p] = "add_book_insert"
    /\ store' = Append(store, [store_id |-> loc[p].store_id,
                               book_id |-> loc[p].book_id,
                               book_info |-> loc[p].book_info,
                               stock_level |-> loc[p].stock_level])
    /\ init_stock' = IF book_id_exist(loc[p].store_id, loc[p].book_id)
                     THEN init_stock
                     ELSE init_stock \cup
                          {<<loc[p].store_id, loc[p].book_id, loc[p].stock_level>>}
    /\ Return(p, loc[p], OK, NoToken)
    /\ UNCHANGED <<user, user_store, order_history, now, hist_acct,
                   calls, ship_ok, restocked>>

\* add_stock_level: user_id_exist (lines 65-66).
add_stock_level(p, user_id, store_id, book_id, delta) ==
    /\ pc[p] = "idle"
    /\ calls < MaxCalls
    /\ calls' = calls + 1
    /\ LET a == [Blank EXCEPT !.op = "add_stock_level", !.user_id = user_id,
                              !.store_id = store_id, !.book_id = book_id,
                              !.stock_level = delta] IN
       IF ~user_id_exist(user_id)
       THEN Return(p, a, error_non_exist_user_id, NoToken)
       ELSE Goto(p, a, "add_stock_level_store")
    /\ UNCHANGED <<db_vars, now, hist_acct, ship_ok, init_stock, restocked>>

\* add_stock_level: store_id_exist (lines 67-68).
add_stock_level_store(p) ==
    /\ pc[p] = "add_stock_level_store"
    /\ IF ~store_id_exist(loc[p].store_id)
       THEN Return(p, loc[p], error_non_exist_store_id, NoToken)
       ELSE Goto(p, loc[p], "add_stock_level_book")
    /\ UNCHANGED <<db_vars, now, hist_acct, hist_sell>>

\* add_stock_level: book_id_exist (lines 69-70).
add_stock_level_book(p) ==
    /\ pc[p] = "add_stock_level_book"
    /\ IF ~book_id_exist(loc[p].store_id, loc[p].book_id)
       THEN Return(p, loc[p], error_non_exist_book_id, NoToken)
       ELSE Goto(p, loc[p], "add_stock_level_update")
    /\ UNCHANGED <<db_vars, now, hist_acct, hist_sell>>

\* The update written with '$set' in place of '$inc'.
inc_stock_level_set(store_id, book_id, delta) ==
    LET i == find_book(store_id, book_id) IN
    IF i = 0 THEN store
    ELSE [store EXCEPT ![i].stock_level = delta]

\* The update with a floor at zero.
inc_stock_level_clamped(store_id, book_id, delta) ==
    LET i == find_book(store_id, book_id) IN
    IF i = 0 THEN store
    ELSE [store EXCEPT ![i].stock_level = IF @ + delta < 0 THEN 0 ELSE @ + delta]

\* update_one({store_id, book_id}, {'$inc': {'stock_level': delta}}): the
\* collection after it.
inc_stock_level(store_id, book_id, delta) ==
    LET i == find_book(store_id, book_id) IN
    IF i = 0 THEN store
    ELSE [store EXCEPT ![i].stock_level = @ + delta]

\* add_stock_level: update_one and the return (lines 73-81).
add_stock_level_update(p) ==
    /\ pc[p] = "add_stock_level_update"
    /\ store' = inc_stock_level(loc[p].store_id, loc[p].book_id, loc[p].stock_level)
    /\ restocked' = [restocked EXCEPT ![<<loc[p].store_id, loc[p].book_id>>] =
                                         @ + loc[p].stock_level]
    /\ Return(p, loc[p], OK, NoToken)
    /\ UNCHANGED <<user, user_store, order_history, now, hist_acct,
                   calls, ship_ok, init_stock>>

\* create_store: user_id_exist (lines 93-94).
create_store(p, user_id, store_id) ==
    /\ pc[p] = "idle"
    /\ calls < MaxCalls
    /\ calls' = calls + 1
    /\ LET a == [Blank EXCEPT !.op = "create_store", !.user_id = user_id,
                              !.store_id = store_id] IN
       IF ~user_id_exist(user_id)
       THEN Return(p, a, error_non_exist_user_id, NoToken)
       ELSE Goto(p, a, "create_store_store")
    /\ UNCHANGED <<db_vars, now, hist_acct, ship_ok, init_stock, restocked>>

\* create_store: store_id_exist (lines 95-96).
create_store_store(p) ==
    /\ pc[p] = "create_store_store"
    /\ IF store_id_exist(loc[p].store_id)
       THEN Return(p, loc[p], error_exist_store_id, NoToken)
       ELSE Goto(p, loc[p], "create_store_insert")
    /\ UNCHANGED <<db_vars, now, hist_acct, hist_sell>>

\* create_store: insert_one and the return (lines 99-108).
create_store_insert(p) ==
    /\ pc[p] = "create_store_insert"
    /\ user_store' = Append(user_store, [store_id |-> loc[p].store_id,
                                         user_id |-> loc[p].user_id])
    /\ Return(p, loc[p], OK, NoToken)
    /\ UNCHANGED <<user, store, order_history, now, hist_acct, hist_sell>>

\* ship_order: user_id_exist (lines 122-123).
ship_order(p, user_id, store_id, order_id) ==
    /\ pc[p] = "idle"
    /\ calls < MaxCalls
    /\ calls' = calls + 1
    /\ LET a == [Blank EXCEPT !.op = "ship_order", !.user_id = user_id,
                              !.store_id = store_id, !.order_id = order_id] IN
       IF ~user_id_exist(user_id)
       THEN Return(p, a, error_non_exist_user_id, NoToken)
       ELSE Goto(p, a, "ship_order_store")
    /\ UNCHANGED <<db_vars, now, hist_acct, ship_ok, init_stock, restocked>>

\* ship_order without the check of the store.
ship_order_store_skip(p) ==
    /\ pc[p] = "ship_order_store"
    /\ Goto(p, loc[p], "ship_order_find")
    /\ UNCHANGED <<db_vars, now, hist_acct, hist_sell>>

\* ship_order: store_id_exist, answered with the "store exists" error
\* (lines 124-125).
ship_order_store(p) ==
    /\ pc[p] = "ship_order_store"
    /\ IF ~store_id_exist(loc[p].store_id)
       THEN Return(p, loc[p], error_exist_store_id, NoToken)
       ELSE Goto(p, loc[p], "ship_order_find")
    /\ UNCHANGED <<db_vars, now, hist_acct, hist_sell>>

\* ship_order without the check of the status.
ship_order_find_no_status(p) ==
    /\ pc[p] = "ship_order_find"
    /\ LET i == find_order(loc[p].order_id) IN
       IF i = 0
       THEN Return(p, loc[p], InvalidOrder, NoToken)
       ELSE Goto(p, loc[p], "ship_order_update")
    /\ UNCHANGED <<db_vars, now, hist_acct, hist_sell>>

\* ship_order that writes shipped before it checks the status it found.
ship_order_find_write_first(p) ==
    /\ pc[p] = "ship_order_find"
    /\ LET i == find_order(loc[p].order_id) IN
       IF i = 0
       THEN /\ Return(p, loc[p], InvalidOrder, NoToken)
            /\ order_history' = order_history
       ELSE /\ order_history' = [order_history EXCEPT ![i].status = "shipped"]
            /\ IF order_history[i].status # "paid"
               THEN Return(p, loc[p], NotPaid, NoToken)
               ELSE Goto(p, loc[p], "ship_order_update")
    /\ UNCHANGED <<user, user_store, store, now, hist_acct, hist_sell>>

\* ship_order: find_one and the two checks of what it found (lines 128-132).
ship_order_find(p) ==
    /\ pc[p] = "ship_order_find"
    /\ LET i == find_order(loc[p].order_id) IN
       IF i = 0
       THEN Return(p, loc[p], InvalidOrder, NoToken)
       ELSE IF order_history[i].status # "paid"
       THEN Return(p, loc[p], NotPaid, NoToken)
       ELSE Goto(p, loc[p], "ship_order_update")
    /\ UNCHANGED <<db_vars, now, hist_acct, hist_sell>>

\* update_one({'order_id': order_id}, {'$set': {'status': 'shipped'}}): the
\* collection after it.
set_shipped(order_id) ==
    LET i == find_order(order_id) IN
    IF i = 0 THEN order_history
    ELSE [order_history EXCEPT ![i].status = "shipped"]

\* ship_order: update_one and the return (lines 135-141).
ship_order_update(p) ==
    /\ pc[p] = "ship_order_update"
    /\ order_history' = set_shipped(loc[p].order_id)
    /\ ship_ok' = [ship_ok EXCEPT ![loc[p].order_id] = @ + 1]
    /\ Return(p, loc[p], OK, NoToken)
    /\ UNCHANGED <<user, user_store, store, now, hist_acct,
                   calls, init_stock, restocked>>

----------------------------------------------------------------------------
(* The account service, one caller *)

\* A well-formed token signed with another user's key.
Forged == [jwt |-> TRUE, user_id |-> "u1", terminal |-> plain("t1"),
           timestamp |-> 0, key |-> "u2"]

\* The token register stores at clock reading 0, with a signature that was
\* tampered with: it verifies under no key.
Tampered == [jwt |-> TRUE, user_id |-> "u1", terminal |-> terminal_(0),
             timestamp |-> 0, key |-> "?"]

\* The token strings a caller presents: any token it was ever given, the
\* stored ones (the signing key is the public user_id), a token signed with
\* another key, a tampered one, and strings that are no JWT.
PresentedTokens ==
    returned \cup {user[i].token : i \in DOMAIN user}
             \cup {Forged, Tampered, Garbage, EmptyString}

Init ==
    /\ user = <<>>
    /\ user_store = <<>>
    /\ store = <<>>
    /\ order_history = <<>>
    /\ now = 0
    /\ pc = [p \in Procs |-> "idle"]
    /\ loc = [p \in Procs |-> Blank]
    /\ ret = [p \in Procs |-> NoCall]
    /\ returned = {}
    /\ superseded = {}
    /\ logged_out = {}
    /\ calls = 0
    /\ ship_ok = [o \in OrderIds |-> 0]
    /\ init_stock = {}
    /\ restocked = [k \in StoreIds \X BookIds |-> 0]

AccountCall(p) ==
    \/ \E u \in UserIds, pw \in Passwords : register(p, u, pw)
    \/ \E u \in UserIds, t \in PresentedTokens : check_token(p, u, t)
    \/ \E u \in UserIds, pw \in Passwords : check_password(p, u, pw)
    \/ \E u \in UserIds, pw \in Passwords, t \in Terminals : login(p, u, pw, t)
    \/ \E u \in UserIds, t \in PresentedTokens : logout(p, u, t)
    \/ \E u \in UserIds, pw \in Passwords : unregister(p, u, pw)
    \/ \E u \in UserIds, old \in Passwords, new \in Passwords :
          change_password(p, u, old, new)

AccountStep(p) ==
    \/ register_insert(p)
    \/ login_update(p)
    \/ logout_update(p)
    \/ unregister_delete(p)
    \/ change_password_update(p)

Next ==
    \/ Tick
    \/ \E p \in SeqProcs : AccountCall(p)
    \/ \E p \in SeqProcs : AccountStep(p)

Spec == Init /\ [][Next]_vars

\* The terminal labels of the callers that race: labels of their own, none
\* that looks like one the service makes.
RaceTerminals == {plain("t1"), plain("t2")}

RaceCall(p) ==
    \/ \E u \in UserIds, pw \in Passwords : register(p, u, pw)
    \/ \E u \in UserIds, t \in PresentedTokens : check_token(p, u, t)
    \/ \E u \in UserIds, pw \in Passwords : check_password(p, u, pw)
    \/ \E u \in UserIds, pw \in Passwords, t \in RaceTerminals : login(p, u, pw, t)
    \/ \E u \in UserIds, t \in PresentedTokens : logout(p, u, t)
    \/ \E u \in UserIds, pw \in Passwords : unregister(p, u, pw)
    \/ \E u \in UserIds, old \in Passwords, new \in Passwords :
          change_password(p, u, old, new)

\* The service starts with empty collections at the last clock reading the
\* model tells from the next: during the calls below every reading is the
\* same.
RaceInit ==
    /\ user = <<>>
    /\ user_store = <<>>
    /\ store = <<>>
    /\ order_history = <<>>
    /\ now = MaxTicks * token_lifetime
    /\ pc = [p \in Procs |-> "idle"]
    /\ loc = [p \in Procs |-> Blank]
    /\ ret = [p \in Procs |-> NoCall]
    /\ returned = {}
    /\ superseded = {}
    /\ logged_out = {}
    /\ calls = 0
    /\ ship_ok = [o \in OrderIds |-> 0]
    /\ init_stock = {}
    /\ restocked = [k \in StoreIds \X BookIds |-> 0]

\* Two callers: caller 1 makes any calls, one after the other, and caller 2
\* makes one call whose database operations fall anywhere between those of
\* caller 1.
AccountRaceNext ==
    \/ \E p \in SeqProcs : RaceCall(p)
    \/ \E p \in Procs \ SeqProcs : ret[p].op = "" /\ RaceCall(p)
    \/ \E p \in Procs : AccountStep(p)

AccountRaceSpec == RaceInit /\ [][AccountRaceNext]_vars

----------------------------------------------------------------------------
(* The seller service *)

\* The user collection after register("u1", "p1") at clock reading 0.
RegisteredUser ==
    [user_id |-> "u1", password |-> "p1", balance |-> 0,
     token |-> jwt_encode("u1", terminal_(0), 0), terminal |-> terminal_(0)]

\* The state after register("u1", "p1") and create_store("u1", "s1").  Orders
\* are made and paid by the buyer service: order o1 is there in any status,
\* order o2 is not.
SellerInit ==
    /\ user = <<RegisteredUser>>
    /\ user_store = <<[store_id |-> "s1", user_id |-> "u1"]>>
    /\ store = <<>>
    /\ \E st \in Statuses : order_history = <<[order_id |-> "o1", status |-> st]>>
    /\ now = 0
    /\ pc = [p \in Procs |-> "idle"]
    /\ loc = [p \in Procs |-> Blank]
    /\ ret = [p \in Procs |-> NoCall]
    /\ returned = {}
    /\ superseded = {}
    /\ logged_out = {}
    /\ calls = 0
    /\ ship_ok = [o \in OrderIds |-> 0]
    /\ init_stock = {}
    /\ restocked = [k \in StoreIds \X BookIds |-> 0]

SellerUserIds == {"u1", "u2"}

SellerCall(p) ==
    \/ \E u \in SellerUserIds, s \in StoreIds : create_store(p, u, s)
    \/ \E u \in SellerUserIds, s \in StoreIds, b \in BookIds, j \in BookInfos,
          n \in StockLevels : add_book(p, u, s, b, j, n)
    \/ \E u \in SellerUserIds, s \in StoreIds, b \in BookIds, d \in Deltas :
          add_stock_level(p, u, s, b, d)
    \/ \E u \in SellerUserIds, s \in StoreIds, o \in OrderIds : ship_order(p, u, s, o)

SellerStep(p) ==
    \/ create_store_store(p)
    \/ create_store_insert(p)
    \/ add_book_store(p)
    \/ add_book_book(p)
    \/ add_book_insert(p)
    \/ add_stock_level_store(p)
    \/ add_stock_level_book(p)
    \/ add_stock_level_update(p)
    \/ ship_order_store(p)
    \/ ship_order_find(p)
    \/ ship_order_update(p)

\* One caller: the calls run one after the other.
SellerSeqNext ==
    \/ \E p \in SeqProcs : SellerCall(p)
    \/ \E p \in SeqProcs : SellerStep(p)

SellerSeqSpec == SellerInit /\ [][SellerSeqNext]_vars

\* Two callers: every interleaving of their database operations.
SellerNext ==
    \/ \E p \in Procs : SellerCall(p)
    \/ \E p \in Procs : SellerStep(p)

SellerSpec == SellerInit /\ [][SellerNext]_vars

----------------------------------------------------------------------------
(* Both services, two calls *)

\* The user collection after register("u2", "p1") at clock reading 0.
RegisteredUser2 ==
    [user_id |-> "u2", password |-> "p1", balance |-> 0,
     token |-> jwt_encode("u2", terminal_(0), 0), terminal |-> terminal_(0)]

\* The states two calls may find: store s1 was created by u1; u1 is still
\* registered or not, and u2 is registered beside u1 or not; book b1 is
\* listed in s1 or not; order o1 is there in any status.
TwoCallsInit ==
    /\ user \in {<<>>, <<RegisteredUser>>, <<RegisteredUser, RegisteredUser2>>}
    /\ user_store = <<[store_id |-> "s1", user_id |-> "u1"]>>
    /\ store \in {<<>>, <<[store_id |-> "s1", book_id |-> "b1",
                           book_info |-> "{}", stock_level |-> 10]>>}
    /\ \E st \in Statuses : order_history = <<[order_id |-> "o1", status |-> st]>>
    /\ now = 0
    /\ pc = [p \in Procs |-> "idle"]
    /\ loc = [p \in Procs |-> Blank]
    /\ ret = [p \in Procs |-> NoCall]
    /\ returned = {}
    /\ superseded = {}
    /\ logged_out = {}
    /\ calls = 0
    /\ ship_ok = [o \in OrderIds |-> 0]
    /\ init_stock = {}
    /\ restocked = [k \in StoreIds \X BookIds |-> 0]

\* Each of the two callers makes one call, of either service; the database
\* operations of the two calls interleave in every way.
TwoCallsNext ==
    \/ \E p \in Procs : ret[p].op = "" /\ RaceCall(p)
    \/ \E p \in Procs : ret[p].op = "" /\ SellerCall(p)
    \/ \E p \in Procs : AccountStep(p)
    \/ \E p \in Procs : SellerStep(p)

TwoCallsSpec == TwoCallsInit /\ [][TwoCallsNext]_vars

----------------------------------------------------------------------------
(* Properties of the account service, checked under Spec *)

\* C1: when the last call that ended was a login that returned 200 and token
\* T, and the clock reads at most token_lifetime past the reading login took
\* for T, then check_token with T returns 200.
C1_LoginThenCheckToken ==
    [][\A p \in Procs : \A T \in returned :
          ( /\ ret[p].op = "login"
            /\ ret[p].code = OK
            /\ ret[p].token = T
            /\ now - T.timestamp <= token_lifetime
            /\ check_token(p, T.user_id, T) )
          => ret'[p].code = OK]_vars

\* A check_token returned 200 for the token of the last login, a whole token
\* lifetime after it was issued.
C1_Witness ==
    /\ ret[1].op = "check_token"
    /\ ret[1].code = OK
    /\ ret[1].presented \in returned
    /\ now - ret[1].presented.timestamp = token_lifetime

\* C2: a token that login returned is rejected by check_token once a later
\* login, change_password or logout of its user has returned 200, whatever
\* the terminal labels and the clock readings.
C2_RotationInvalidatesPrior ==
    [][\A p \in Procs : \A T \in superseded :
          check_token(p, T.user_id, T)
          => ret'[p].code = error_authorization_fail]_vars

\* C3: for a presented token equal to the stored one, check_token returns 200
\* if and only if the clock reads at most token_lifetime past the token's
\* timestamp, returns the authorization error otherwise, and leaves the user
\* collection as it was.
C3_LifetimeBoundary ==
    [][\A p \in Procs : \A i \in DOMAIN user :
          check_token(p, user[i].user_id, user[i].token)
          => /\ ret'[p].code = OK <=> now - user[i].token.timestamp <= token_lifetime
             /\ ret'[p].code # OK => ret'[p].code = error_authorization_fail
             /\ user' = user]_vars

\* A check_token of the stored token was refused one second past its lifetime.
C3_Witness ==
    /\ ret[1].op = "check_token"
    /\ ret[1].code = error_authorization_fail
    /\ user # <<>>
    /\ ret[1].presented = user[1].token
    /\ now - ret[1].presented.timestamp = token_lifetime + 1

\* No stored token is the empty string.
TokenNeverNull == \A i \in DOMAIN user : user[i].token # EmptyString

\* C4: after a logout that returned 200 and until the next login that returns
\* 200, check_token refuses every token that login has returned for that
\* user; and the stored token is never null.
C4_NoSessionAfterLogout ==
    /\ []TokenNeverNull
    /\ [][\A p \in Procs : \A T \in returned :
             ( T.user_id \in logged_out /\ check_token(p, T.user_id, T) )
             => ret'[p].code = error_authorization_fail]_vars

\* The documents of the user collection with this user_id.
records_of(user_id) == {i \in DOMAIN user : user[i].user_id = user_id}

\* C5: register of a present user_id returns the "exists" error and leaves
\* the user collection as it was; register of an absent one goes on to
\* insert a document with that password and balance 0 and returns 200; no
\* user_id has two documents.
C5_Register ==
    /\ [](\A u \in UserIds : Cardinality(records_of(u)) <= 1)
    /\ [][\A p \in Procs :
             /\ \A u \in UserIds, pw \in Passwords :
                   register(p, u, pw)
                   => IF user_id_exist(u)
                      THEN /\ pc'[p] = "idle"
                           /\ ret'[p].code = error_exist_user_id
                           /\ user' = user
                      ELSE pc'[p] # "idle"
             /\ register_insert(p)
                => /\ ret'[p].code = OK
                   /\ ~user_id_exist(loc[p].user_id)
                   /\ Len(user') = Len(user) + 1
                   /\ \A i \in DOMAIN user : user'[i] = user[i]
                   /\ user'[Len(user')].user_id = loc[p].user_id
                   /\ user'[Len(user')].password = loc[p].password
                   /\ user'[Len(user')].balance = 0]_vars

\* A second register of a registered user was refused.
C5_Witness ==
    /\ ret[1].op = "register"
    /\ ret[1].code = error_exist_user_id
    /\ Cardinality(records_of(ret[1].user_id)) = 1
    /\ user[1].balance = 0

\* C17: whatever token string is presented (the stored token, fresh or
\* stale, an earlier token, one signed with another key, a tampered one, one
\* that is no JWT, the empty string), check_token returns 200 or the
\* authorization error: no exception leaves it.
C17_CheckTokenNeverRaises ==
    /\ \A u \in UserIds, T \in PresentedTokens :
          token_verdict(u, T, now) \in {OK, error_authorization_fail}
    /\ \A p \in Procs :
          ret[p].op = "check_token"
          => ret[p].code \in {OK, error_authorization_fail}

\* check_token of a registered user returned the authorization error for a
\* string that is no JWT, one second after the stored token went stale.
C17_Witness ==
    /\ ret[1].op = "check_token"
    /\ ret[1].presented = Garbage
    /\ ret[1].code = error_authorization_fail
    /\ user_id_exist(ret[1].user_id)
    /\ now - user[1].token.timestamp = token_lifetime + 1

----------------------------------------------------------------------------
(* Properties of the seller service *)

\* The status of the order, "" when there is no such order.
status_of(order_id) ==
    IF find_order(order_id) = 0 THEN ""
    ELSE order_history[find_order(order_id)].status

\* C6 (one caller, SellerSeqSpec): ship_order of an order that is paid writes
\* shipped and returns 200; of an order that is not paid it returns the
\* not-paid error, of an unknown order_id the invalid-order error, both
\* leaving order_history as it was; once a ship_order of an order has
\* returned 200 the order stays shipped and no other ship_order of it does.
C6_ShipSequential ==
    /\ [](\A o \in OrderIds : ship_ok[o] >= 1 => status_of(o) = "shipped" /\ ship_ok[o] = 1)
    /\ [][\A p \in Procs :
             /\ ship_order_find(p)
                => CASE status_of(loc[p].order_id) = ""
                          -> /\ ret'[p].code = InvalidOrder
                             /\ pc'[p] = "idle"
                             /\ order_history' = order_history
                     [] status_of(loc[p].order_id) = "paid"
                          -> pc'[p] = "ship_order_update"
                     [] OTHER
                          -> /\ ret'[p].code = NotPaid
                             /\ pc'[p] = "idle"
                             /\ order_history' = order_history
             /\ \A o \in OrderIds :
                   ( ship_order_update(p) /\ loc[p].order_id = o )
                   => /\ status_of(o) = "paid"
                      /\ status_of(o)' = "shipped"
                      /\ ret'[p].code = OK]_vars

\* An order was shipped and a later ship_order of it was refused as not paid.
C6_Witness ==
    /\ ship_ok["o1"] = 1
    /\ ret[1].op = "ship_order"
    /\ ret[1].order_id = "o1"
    /\ ret[1].code = NotPaid
    /\ status_of("o1") = "shipped"

\* C7 (two callers, SellerSpec): at most one ship_order call of an order
\* returns 200.
C7_NoDoubleShipment == \A o \in OrderIds : ship_ok[o] <= 1

\* C8 (two callers, SellerSpec): a shipped order never becomes paid again,
\* and every write of shipped by ship_order is applied to an order that is
\* paid at the moment of the write.
C8_StatusMonotonic ==
    [][/\ \A o \in OrderIds : status_of(o) = "shipped" => status_of(o)' # "paid"
       /\ \A p \in Procs :
             ship_order_update(p) => status_of(loc[p].order_id) = "paid"]_vars

\* The first listing of the pair.
listing(store_id, book_id) == store[find_book(store_id, book_id)]

\* C9 (two callers, SellerSpec): the stock_level of a listing is the
\* stock_level add_book gave it plus the deltas of the add_stock_level calls
\* that returned 200.
C9_NoLostRestock ==
    \A k \in init_stock :
        /\ book_id_exist(k[1], k[2])
        /\ listing(k[1], k[2]).stock_level = k[3] + restocked[<<k[1], k[2]>>]

\* Both callers restocked the listing by 5: 10 became 20.
C9_Witness ==
    /\ <<"s1", "b1", 10>> \in init_stock
    /\ restocked[<<"s1", "b1">>] = 10
    /\ listing("s1", "b1").stock_level = 20
    /\ \A p \in Procs : ret[p].op = "add_stock_level" /\ ret[p].code = OK

\* C10 (two callers, SellerSpec): no (store_id, book_id) pair has two listings.
C10_ListingUnique ==
    \A s \in StoreIds, b \in BookIds :
        Cardinality({i \in DOMAIN store :
                        store[i].store_id = s /\ store[i].book_id = b}) <= 1

\* C15 (one caller, SellerSeqSpec): add_book of an absent user returns the
\* no-such-user error whatever the store and the book; of a present user and
\* an absent store the no-such-store error whatever the book; of a present
\* user, a present store and a listed (store_id, book_id) the book-exists
\* error; all three leave the listings as they were; otherwise it appends
\* exactly one listing, with the stock_level given, and returns 200.
C15_AddBookCheckOrder ==
    /\ [](\A p \in Procs :
             /\ pc[p] \in {"add_book_store", "add_book_book", "add_book_insert"}
                => user_id_exist(loc[p].user_id)
             /\ pc[p] \in {"add_book_book", "add_book_insert"}
                => store_id_exist(loc[p].store_id)
             /\ pc[p] = "add_book_insert"
                => ~book_id_exist(loc[p].store_id, loc[p].book_id))
    /\ [][\A p \in Procs :
             /\ \A u \in SellerUserIds, s \in StoreIds, b \in BookIds,
                   j \in BookInfos, n \in StockLevels :
                   add_book(p, u, s, b, j, n)
                   => IF ~user_id_exist(u)
                      THEN /\ ret'[p].code = error_non_exist_user_id
                           /\ pc'[p] = "idle"
                           /\ store' = store
                      ELSE pc'[p] = "add_book_store"
             /\ add_book_store(p)
                => IF ~store_id_exist(loc[p].store_id)
                   THEN /\ ret'[p].code = error_non_exist_store_id
                        /\ pc'[p] = "idle"
                        /\ store' = store
                   ELSE pc'[p] = "add_book_book"
             /\ add_book_book(p)
                => IF book_id_exist(loc[p].store_id, loc[p].book_id)
                   THEN /\ ret'[p].code = error_exist_book_id
                        /\ pc'[p] = "idle"
                        /\ store' = store
                   ELSE pc'[p] = "add_book_insert"
             /\ add_book_insert(p)
                => /\ ret'[p].code = OK
                   /\ Len(store') = Len(store) + 1
                   /\ \A i \in DOMAIN store : store'[i] = store[i]
                   /\ store'[Len(store')].store_id = loc[p].store_id
                   /\ store'[Len(store')].book_id = loc[p].book_id
                   /\ store'[Len(store')].stock_level = loc[p].stock_level]_vars

\* After book b1 was listed in store s1, an add_book of the absent user u2
\* in the absent store s2 was answered with the no-such-user error.
C15_Witness ==
    /\ ret[1].op = "add_book"
    /\ ret[1].code = error_non_exist_user_id
    /\ ret[1].user_id = "u2"
    /\ ret[1].store_id = "s2"
    /\ ~store_id_exist("s2")
    /\ Len(store) = 1
    /\ listing("s1", "b1").stock_level \in StockLevels

\* C16 as claimed (SellerSpec): the stock_level of every listing is a
\* non-negative integer, whatever integers add_book and add_stock_level are
\* called with.
C16_StockNonNegative ==
    \A i \in DOMAIN store : store[i].stock_level \in Nat

\* C16 as amended (SellerSpec): add_stock_level adds its delta to the
\* stock_level of the listing with no floor at zero, and a stock_level that
\* add_book set non-negative is negative only after an add_stock_level with
\* a negative delta.
C16_StockUnclamped ==
    /\ [](\A i \in DOMAIN store : store[i].stock_level \in Int)
    /\ [][\A i \in DOMAIN store' :
             /\ \A p \in Procs :
                   ( /\ add_stock_level_update(p)
                     /\ i = find_book(loc[p].store_id, loc[p].book_id) )
                   => store'[i].stock_level
                         = store[i].stock_level + loc[p].stock_level
             /\ store'[i].stock_level < 0
                => \/ i \in DOMAIN store /\ store[i].stock_level < 0
                   \/ \E p \in Procs :
                         /\ add_stock_level_update(p)
                         /\ i = find_book(loc[p].store_id, loc[p].book_id)
                         /\ loc[p].stock_level < 0]_vars

\* A listing added with stock_level 10 was restocked by -11, with 200: its
\* stock_level is -1.
C16_Witness ==
    /\ <<"s1", "b1", 10>> \in init_stock
    /\ restocked[<<"s1", "b1">>] = -11
    /\ ret[1].op = "add_stock_level"
    /\ ret[1].code = OK
    /\ ret[1].delta = -11
    /\ listing("s1", "b1").stock_level = -1

----------------------------------------------------------------------------
(* Further properties of the account service: C11 and C18 checked under   *)
(* Spec, C12, C13 and C20 under AccountRaceSpec                            *)

\* The tokens check_token(user_id, .) returns 200 for, among those a caller
\* can present.
accepted(user_id) ==
    {T \in PresentedTokens : token_verdict(user_id, T, now) = OK}

\* The write of login, logout or change_password by p stores, on the record
\* it picks, a token and the terminal embedded in that token: the terminal
\* is the caller's (login) or made from the clock reading before the one that
\* stamps the token.
writes_pair(p) ==
    \A i \in DOMAIN user :
        i = find_user(loc[p].user_id)
        => /\ user'[i].token = jwt_encode(user[i].user_id, user'[i].terminal, now')
           /\ user'[i].terminal = IF loc[p].op = "login" THEN loc[p].terminal
                                  ELSE terminal_(now)
           /\ \A j \in DOMAIN user : j # i => user'[j] = user[j]

\* C11: for every user, the tokens check_token accepts are at most one, the
\* token stored on the user's record; and every login, logout or
\* change_password that returns 200 writes the token and the terminal of
\* that record together, in its one update.
C11_SingleSession ==
    /\ [](\A u \in UserIds :
             /\ Cardinality(accepted(u)) <= 1
             /\ \A T \in accepted(u) :
                   user_id_exist(u) /\ T = user[find_user(u)].token)
    /\ [][\A p \in Procs :
             ( /\ login_update(p) \/ logout_update(p) \/ change_password_update(p)
               /\ ret'[p].code = OK )
             => writes_pair(p)]_vars

\* After a second login with another terminal, check_token returned 200 for
\* the stored token while the token of the first login, still within its
\* lifetime, is refused.
C11_Witness ==
    /\ ret[1].op = "check_token"
    /\ ret[1].code = OK
    /\ user # <<>>
    /\ ret[1].presented = user[1].token
    /\ accepted("u1") = {user[1].token}
    /\ \E T \in superseded : T # user[1].token /\ T \notin accepted("u1")

\* C13: the update of a login that finds no record of the user (a concurrent
\* unregister deleted it after the password check) returns the authorization
\* error, as a pair that holds no token, and leaves the user collection as
\* it is; the update of
\* a login that finds one returns 200 and the token it stored on that
\* record, and adds no record.
C13_LoginVanishedUser ==
    [][\A p \in Procs :
          login_update(p)
          => IF ~user_id_exist(loc[p].user_id)
             THEN /\ ret'[p].code = error_authorization_fail
                  /\ ret'[p].token = NoToken
                  /\ user' = user
             ELSE /\ ret'[p].code = OK
                  /\ Len(user') = Len(user)
                  /\ \E i \in DOMAIN user :
                        /\ user[i].user_id = loc[p].user_id
                        /\ user'[i].user_id = loc[p].user_id
                        /\ user'[i].token = ret'[p].token]_vars

\* A login passed its password check, an unregister of the other caller
\* deleted the record, and the login returned the authorization error from
\* its update.
C13_Witness ==
    /\ ret[1].op = "login"
    /\ ret[1].code = error_authorization_fail
    /\ ret[1].at = "login_update"
    /\ ret[1].token = NoToken
    /\ ret[2].op = "unregister"
    /\ ret[2].code = OK
    /\ user = <<>>

\* C12: when a change_password with a new password other than the old one
\* has returned 200, check_token refuses the token of every login that
\* returned 200 and gave the old password, also of a login that checked the
\* password before the change and wrote its token after it.
C12_PasswordChangeInvalidates ==
    [][\A p \in Procs, q \in Procs, r \in Procs :
          ( /\ ret[q].op = "change_password"
            /\ ret[q].code = OK
            /\ ret[q].password # ret[q].new_password
            /\ ret[p].op = "login"
            /\ ret[p].code = OK
            /\ ret[p].user_id = ret[q].user_id
            /\ ret[p].password = ret[q].password
            /\ check_token(r, ret[p].user_id, ret[p].token) )
          => ret'[r].code = error_authorization_fail]_vars

\* C18: the token of every user record is a JWT issued for that record's
\* user_id (subject and signing key), carries a timestamp, and embeds the
\* terminal the record holds.
C18_TokenMatchesRecord ==
    \A i \in DOMAIN user :
        /\ jwt_decode(user[i].token, user[i].user_id).raised = ""
        /\ jwt_decode(user[i].token, user[i].user_id).user_id = user[i].user_id
        /\ jwt_decode(user[i].token, user[i].user_id).timestamp \in 0..now
        /\ jwt_decode(user[i].token, user[i].user_id).terminal = user[i].terminal

\* A login with terminal t1 was followed by a logout that returned 200 and
\* read the clock twice, a token lifetime apart: the record holds the
\* terminal the logout made from the first reading, and a token that embeds
\* it and is stamped with the second.
C18_Witness ==
    /\ ret[1].op = "logout"
    /\ ret[1].code = OK
    /\ ret[1].presented.terminal = plain("t1")
    /\ user # <<>>
    /\ user[1].terminal = terminal_(now - token_lifetime)
    /\ user[1].token.terminal = user[1].terminal
    /\ user[1].token.timestamp = now

\* C20: a change_password returns 200 only when its update finds a record of
\* the user, on which the password is the new one right after the write.
C20_ChangePasswordApplied ==
    [][\A p \in Procs :
          ( change_password_update(p) /\ ret'[p].code = OK )
          => \E i \in DOMAIN user :
                /\ i = find_user(loc[p].user_id)
                /\ i \in DOMAIN user'
                /\ user'[i].user_id = loc[p].user_id
                /\ user'[i].password = loc[p].new_password]_vars

----------------------------------------------------------------------------
(* Properties of both services, checked under TwoCallsSpec *)

\* Caller p takes the step.
step_of(p) == pc'[p] # pc[p] \/ ret'[p] # ret[p]

\* C14: a step of a call of register, login, logout, unregister,
\* change_password, create_store, add_book, add_stock_level or ship_order
\* changes a collection only if it is the step the call returns 200 from: a
\* call that returns another code has changed none.
C14_FailureLeavesCollections ==
    [][\A p \in Procs :
          ( /\ step_of(p)
            /\ pc'[p] # "idle" \/ ret'[p].code # OK )
          => /\ user' = user
             /\ user_store' = user_store
             /\ store' = store
             /\ order_history' = order_history]_vars

\* A ship_order of an unpaid order was refused, and a logout with a token
\* that is not the stored one: the collections are as the two calls found
\* them.
C14_Witness ==
    /\ ret[1].op = "ship_order"
    /\ ret[1].code = NotPaid
    /\ ret[2].op = "logout"
    /\ ret[2].code = error_authorization_fail
    /\ user = <<RegisteredUser>>
    /\ user_store = <<[store_id |-> "s1", user_id |-> "u1"]>>
    /\ store = <<>>
    /\ order_history = <<[order_id |-> "o1", status |-> "unpaid"]>>

\* The write of add_book, add_stock_level or ship_order, by p.
seller_write(p) ==
    add_book_insert(p) \/ add_stock_level_update(p) \/ ship_order_update(p)

\* C19 as claimed: add_book, add_stock_level and ship_order write a listing
\* or an order, and return 200, only when the user_store record of the
\* store_id they are called with names the user_id they are called with.
C19_OwnerConfinement ==
    [][\A p \in Procs :
          seller_write(p)
          => /\ store_id_exist(loc[p].store_id)
             /\ user_store[find_store(loc[p].store_id)].user_id = loc[p].user_id]_vars

\* C19 as amended: add_book, add_stock_level and ship_order go past their
\* first check only for a user_id that is registered then, past their second
\* only for a store_id that has a user_store record, and so write, and
\* return 200, only for such a user and store; the owner the record names
\* is not looked at.
C19_UserAndStoreExist ==
    [][\A p \in Procs :
          /\ ( /\ pc[p] = "idle"
               /\ pc'[p] \in {"add_book_store", "add_stock_level_store",
                               "ship_order_store"} )
             => user_id_exist(loc'[p].user_id)
          /\ ( /\ pc[p] \in {"add_book_store", "add_stock_level_store",
                              "ship_order_store"}
               /\ pc'[p] # pc[p] )
             => IF store_id_exist(loc[p].store_id)
                THEN pc'[p] \in {"add_book_book", "add_stock_level_book",
                                 "ship_order_find"}
                ELSE pc'[p] = "idle" /\ ret'[p].code # OK
          /\ seller_write(p)
             => /\ store_id_exist(loc[p].store_id)
                /\ ret'[p].code = OK]_vars

\* User u2 listed a book in store s1, which user u1 owns, and got 200.
C19_Witness ==
    /\ \E p \in Procs :
          /\ ret[p].op = "add_book"
          /\ ret[p].code = OK
          /\ ret[p].user_id = "u2"
          /\ ret[p].store_id = "s1"
    /\ user_store[find_store("s1")].user_id = "u1"
    /\ book_id_exist("s1", "b1")

====
